---- MODULE Spec2Model ----
(***************************************************************************)
(* Model of the ECIES foreign-function boundary of src/android/src/lib.rs: *)
(* ecies_generate_secret_key, ecies_public_key_from, ecies_encrypt and     *)
(* ecies_decrypt, with the text conversions they perform (C strings, UTF-8,*)
(* hexadecimal, base64), the buffers they hand to the caller, and the      *)
(* panics of their unwrap() calls.                                         *)
(*                                                                         *)
(* Bytes are the integers 0..255 and a text or buffer is a sequence of     *)
(* bytes.  The elliptic-curve and cipher primitives come from external     *)
(* crates; they are modelled on a scaled-down prime-order group with the   *)
(* contract the design document states for them.                           *)
(***************************************************************************)
EXTENDS Integers, Sequences, FiniteSets, TLC

(***************************************************************************)
(* Generic helpers on byte sequences.                                      *)
(***************************************************************************)
Zeros(n) == [i \in 1..n |-> 0]

Take(s, n) == SubSeq(s, 1, n)

Drop(s, n) == SubSeq(s, n + 1, Len(s))

RECURSIVE Pow(_, _, _)
Pow(b, e, m) == IF e = 0 THEN 1 % m ELSE (b * Pow(b, e - 1, m)) % m

(***************************************************************************)
(* C strings.  A pointer argument designates the caller's bytes followed   *)
(* by a terminating NUL; CStr::from_ptr reads up to the first NUL.         *)
(***************************************************************************)
CStrFromPtr(buf) ==
    LET nuls == {i \in 1..Len(buf) : buf[i] = 0}
    IN IF nuls = {} THEN buf
       ELSE Take(buf, (CHOOSE i \in nuls : \A j \in nuls : i <= j) - 1)

\* CString::new: fails (NulError) when the bytes hold an interior NUL.
CStringNew(bytes) ==
    IF \E i \in 1..Len(bytes) : bytes[i] = 0
    THEN [ok |-> FALSE, val |-> <<>>]
    ELSE [ok |-> TRUE, val |-> bytes]

(***************************************************************************)
(* CStr::to_str: UTF-8 validation (the well-formed byte sequences of the   *)
(* Unicode standard, table 3-7).                                           *)
(***************************************************************************)
IsCont(b) == b >= 128 /\ b <= 191

\* The length of the sequence a byte leads (0: the byte leads none).
LeadLen(b) ==
    IF b < 128 THEN 1
    ELSE IF b >= 194 /\ b <= 223 THEN 2
    ELSE IF b >= 224 /\ b <= 239 THEN 3
    ELSE IF b >= 240 /\ b <= 244 THEN 4
    ELSE 0

\* The range of the byte that follows lead byte b.
SecondLo(b) == IF b = 224 THEN 160 ELSE IF b = 240 THEN 144 ELSE 128

SecondHi(b) == IF b = 237 THEN 159 ELSE IF b = 244 THEN 143 ELSE 191

\* Every byte either leads a complete well-formed sequence, or is a
\* continuation byte inside the sequence of the nearest lead before it.
Utf8Valid(s) ==
    \A i \in 1..Len(s) :
        IF IsCont(s[i])
        THEN \E j \in 1..(i - 1) :
                /\ i - j < LeadLen(s[j])
                /\ \A k \in (j + 1)..(i - 1) : IsCont(s[k])
        ELSE /\ LeadLen(s[i]) >= 1
             /\ i + LeadLen(s[i]) - 1 <= Len(s)
             /\ \A k \in 1..(LeadLen(s[i]) - 1) : IsCont(s[i + k])
             /\ LeadLen(s[i]) >= 2 =>
                   (s[i + 1] >= SecondLo(s[i]) /\ s[i + 1] <= SecondHi(s[i]))

ToStr(bytes) == [ok |-> Utf8Valid(bytes), val |-> bytes]

(***************************************************************************)
(* Hexadecimal (crate hex).  encode writes lowercase digits; decode takes  *)
(* digits of either case, and fails on an odd length or a non-hex byte.    *)
(***************************************************************************)
\* Digits written in upper case.
HexDigitUpper(n) == IF n < 10 THEN 48 + n ELSE 65 + (n - 10)

HexDigit(n) == IF n < 10 THEN 48 + n ELSE 97 + (n - 10)

HexEncode(bytes) ==
    [i \in 1..(2 * Len(bytes)) |->
        IF i % 2 = 1 THEN HexDigit(bytes[(i + 1) \div 2] \div 16)
        ELSE HexDigit(bytes[i \div 2] % 16)]

HexVal(c) ==
    IF c >= 48 /\ c <= 57 THEN c - 48
    ELSE IF c >= 97 /\ c <= 102 THEN c - 97 + 10
    ELSE IF c >= 65 /\ c <= 70 THEN c - 65 + 10
    ELSE -1

HexPairs(text) ==
    [i \in 1..(Len(text) \div 2) |->
        HexVal(text[2 * i - 1]) * 16 + HexVal(text[2 * i])]

\* A decoder that does not check the length and drops a last lone digit.
HexDecodeNoLengthCheck(text) ==
    IF \E i \in 1..Len(text) : HexVal(text[i]) < 0
    THEN [ok |-> FALSE, err |-> "InvalidHexCharacter", val |-> <<>>]
    ELSE [ok |-> TRUE, err |-> "",
          val |-> HexPairs(Take(text, Len(text) - (Len(text) % 2)))]

HexDecode(text) ==
    IF Len(text) % 2 = 1 THEN [ok |-> FALSE, err |-> "OddLength", val |-> <<>>]
    ELSE IF \E i \in 1..Len(text) : HexVal(text[i]) < 0
    THEN [ok |-> FALSE, err |-> "InvalidHexCharacter", val |-> <<>>]
    ELSE [ok |-> TRUE, err |-> "", val |-> HexPairs(text)]

(***************************************************************************)
(* Standard base64 (crate base64): alphabet A-Z a-z 0-9 + /, padding '='.  *)
(* decode demands canonical padding and zero trailing bits.                *)
(***************************************************************************)
B64Char(i) ==
    IF i < 26 THEN 65 + i
    ELSE IF i < 52 THEN 97 + (i - 26)
    ELSE IF i < 62 THEN 48 + (i - 52)
    ELSE IF i = 62 THEN 43 ELSE 47

B64Val(c) ==
    IF c >= 65 /\ c <= 90 THEN c - 65
    ELSE IF c >= 97 /\ c <= 122 THEN c - 97 + 26
    ELSE IF c >= 48 /\ c <= 57 THEN c - 48 + 52
    ELSE IF c = 43 THEN 62
    ELSE IF c = 47 THEN 63
    ELSE -1

\* Byte i of b, or 0 past its end.
ByteAt(b, i) == IF i <= Len(b) THEN b[i] ELSE 0

\* Symbol k (0..3) of group g (from 0) of the encoding of b.
B64Symbol(b, g, k) ==
    LET b1 == ByteAt(b, 3 * g + 1)
        b2 == ByteAt(b, 3 * g + 2)
        b3 == ByteAt(b, 3 * g + 3)
    IN IF k = 0 THEN B64Char(b1 \div 4)
       ELSE IF k = 1 THEN B64Char((b1 % 4) * 16 + b2 \div 16)
       ELSE IF k = 2
       THEN IF 3 * g + 2 > Len(b) THEN 61
            ELSE B64Char((b2 % 16) * 4 + b3 \div 64)
       ELSE IF 3 * g + 3 > Len(b) THEN 61 ELSE B64Char(b3 % 64)

Base64Encode(b) ==
    [j \in 1..(4 * ((Len(b) + 2) \div 3)) |->
        B64Symbol(b, (j - 1) \div 4, (j - 1) % 4)]

\* The value of symbol i of text, padding counting as 0.
SymbolAt(text, i) == IF text[i] = 61 THEN 0 ELSE B64Val(text[i])

\* Byte k (0..2) of group g (from 0) of the decoding of text.
B64Byte(text, g, k) ==
    LET v1 == SymbolAt(text, 4 * g + 1)
        v2 == SymbolAt(text, 4 * g + 2)
        v3 == SymbolAt(text, 4 * g + 3)
        v4 == SymbolAt(text, 4 * g + 4)
    IN IF k = 0 THEN v1 * 4 + v2 \div 16
       ELSE IF k = 1 THEN (v2 % 16) * 16 + v3 \div 4
       ELSE (v3 % 4) * 64 + v4

B64Bytes(text, np) ==
    [i \in 1..(3 * (Len(text) \div 4) - np) |->
        B64Byte(text, (i - 1) \div 3, (i - 1) % 3)]

\* A decoder that ignores the unused low bits of the last symbol.
Base64DecodeLenient(text) ==
    LET n  == Len(text)
        np == IF n >= 2 /\ text[n] = 61 /\ text[n - 1] = 61 THEN 2
              ELSE IF n >= 1 /\ text[n] = 61 THEN 1 ELSE 0
        bad == [ok |-> FALSE, val |-> <<>>]
    IN IF n % 4 # 0 THEN bad
       ELSE IF \E i \in 1..(n - np) : B64Val(text[i]) < 0 THEN bad
       ELSE [ok |-> TRUE, val |-> B64Bytes(text, np)]

Base64Decode(text) ==
    LET n  == Len(text)
        np == IF n >= 2 /\ text[n] = 61 /\ text[n - 1] = 61 THEN 2
              ELSE IF n >= 1 /\ text[n] = 61 THEN 1 ELSE 0
        bad == [ok |-> FALSE, val |-> <<>>]
    IN IF n % 4 # 0 THEN bad
       ELSE IF \E i \in 1..(n - np) : B64Val(text[i]) < 0 THEN bad
       ELSE IF np = 2 /\ B64Val(text[n - 2]) % 16 # 0 THEN bad
       ELSE IF np = 1 /\ B64Val(text[n - 1]) % 4 # 0 THEN bad
       ELSE [ok |-> TRUE, val |-> B64Bytes(text, np)]

(***************************************************************************)
(* Keys (crate libsecp256k1, re-exported by crate ecies).  The byte        *)
(* layouts are the library's: a 32-byte big-endian scalar; a point as      *)
(* 33 bytes (tag 02/03 by the parity of y, then x), 65 bytes (tag 04, x,   *)
(* y) or 64 bytes (x, y).  The group itself is scaled down to the subgroup *)
(* of prime order 11 of the integers modulo 23: a scalar is valid when it  *)
(* is non-zero and below the group order, a point is a non-identity        *)
(* element of the subgroup, and its second coordinate is a fixed function  *)
(* of the first.                                                           *)
(***************************************************************************)
SECRET_KEY_SIZE == 32

COMPRESSED_PUBLIC_KEY_SIZE == 33

FULL_PUBLIC_KEY_SIZE == 65

RAW_PUBLIC_KEY_SIZE == 64

FIELD_P == 23

CURVE_ORDER == 11

GEN_G == 2

\* A value below 256 as 32 big-endian bytes, and back (256: out of range).
BE32(v) == Zeros(31) \o <<v>>

FromBE32(b) == IF \A i \in 1..31 : b[i] = 0 THEN b[32] ELSE 256

PointY(x) == (x * x * x + 7) % FIELD_P

OnCurve(x) == \E s \in 1..(CURVE_ORDER - 1) : Pow(GEN_G, s, FIELD_P) = x

SecretKeyParseSlice(b) ==
    IF Len(b) # SECRET_KEY_SIZE
    THEN [ok |-> FALSE, err |-> "InvalidInputLength", val |-> 0]
    ELSE IF FromBE32(b) = 0 \/ FromBE32(b) >= CURVE_ORDER
    THEN [ok |-> FALSE, err |-> "InvalidSecretKey", val |-> 0]
    ELSE [ok |-> TRUE, err |-> "", val |-> FromBE32(b)]

SecretKeySerialize(s) == BE32(s)

PublicKeyFromSecretKey(s) == Pow(GEN_G, s, FIELD_P)

ParityTag(x) == 2 + (PointY(x) % 2)

SerializeCompressed(x) == <<ParityTag(x)>> \o BE32(x)

SerializeFull(x) == <<4>> \o BE32(x) \o BE32(PointY(x))

\* PublicKey::parse_slice(bytes, None): the format follows from the length.
PublicKeyParseSlice(b) ==
    LET bad(e) == [ok |-> FALSE, err |-> e, val |-> 0]
        good(x) == [ok |-> TRUE, err |-> "", val |-> x]
    IN IF Len(b) = COMPRESSED_PUBLIC_KEY_SIZE
       THEN LET x == FromBE32(SubSeq(b, 2, 33))
            IN IF b[1] \in {2, 3} /\ OnCurve(x) /\ b[1] = ParityTag(x)
               THEN good(x) ELSE bad("InvalidPublicKey")
       ELSE IF Len(b) = FULL_PUBLIC_KEY_SIZE
       THEN LET x == FromBE32(SubSeq(b, 2, 33))
                y == FromBE32(SubSeq(b, 34, 65))
            IN IF b[1] = 4 /\ OnCurve(x) /\ y = PointY(x)
               THEN good(x) ELSE bad("InvalidPublicKey")
       ELSE IF Len(b) = RAW_PUBLIC_KEY_SIZE
       THEN LET x == FromBE32(SubSeq(b, 1, 32))
                y == FromBE32(SubSeq(b, 33, 64))
            IN IF OnCurve(x) /\ y = PointY(x)
               THEN good(x) ELSE bad("InvalidPublicKey")
       ELSE bad("InvalidInputLength")

(***************************************************************************)
(* The ECIES engine (crate ecies), by the contract of the design document: *)
(* a fresh ephemeral key pair, an ECDH shared secret, a derived symmetric  *)
(* key, authenticated encryption under a fresh nonce, and the envelope     *)
(* ephemeral public key || nonce || ciphertext || tag.  Decryption         *)
(* verifies the tag before it releases any plaintext.  The cipher is a     *)
(* keyed byte stream and the tag a pair of keyed polynomial checksums of   *)
(* the nonce and the ciphertext.                                           *)
(***************************************************************************)
NONCE_LEN == 16

TAG_LEN == 16

SharedPoint(x, s) == Pow(x, s, FIELD_P)

DeriveKey(epk, shared) == epk * FIELD_P + shared

RECURSIVE SumBytes(_)
SumBytes(b) == IF b = <<>> THEN 0 ELSE Head(b) + SumBytes(Tail(b))

KeyStream(k, nonce, i) == (k * 7 + SumBytes(nonce) * 13 + i * 31) % 256

CipherApply(k, nonce, data, sign) ==
    [i \in 1..Len(data) |-> (data[i] + sign * KeyStream(k, nonce, i) + 256) % 256]

RECURSIVE Horner(_, _, _, _)
Horner(acc, data, w, m) ==
    IF data = <<>> THEN acc
    ELSE Horner((acc * w + Head(data) + 1) % m, Tail(data), w, m)

AuthTag(k, data) ==
    LET h1 == Horner((k * 257 + Len(data) + 1) % 65521, data, 257, 65521)
        h2 == Horner((k * 263 + Len(data) + 1) % 65519, data, 263, 65519)
    IN <<h1 \div 256, h1 % 256, h2 \div 256, h2 % 256>> \o Zeros(TAG_LEN - 4)

NonceBytes(n) == Zeros(NONCE_LEN - 1) \o <<n>>

\* encrypt(receiver_pub, msg); esk and n are the call's random draws.
EciesEncrypt(receiver_pub, msg, esk, n) ==
    LET pk == PublicKeyParseSlice(receiver_pub)
    IN IF ~pk.ok THEN [ok |-> FALSE, err |-> "InvalidKey", val |-> <<>>]
       ELSE LET epk   == PublicKeyFromSecretKey(esk)
                k     == DeriveKey(epk, SharedPoint(pk.val, esk))
                nonce == NonceBytes(n)
                ct    == CipherApply(k, nonce, msg, 1)
            IN [ok |-> TRUE, err |-> "",
                val |-> SerializeCompressed(epk) \o nonce \o ct
                        \o AuthTag(k, nonce \o ct)]

\* decrypt(receiver_sec, msg).
EciesDecrypt(receiver_sec, env) ==
    LET sk == SecretKeyParseSlice(receiver_sec)
        bad(e) == [ok |-> FALSE, err |-> e, val |-> <<>>]
        hdr == COMPRESSED_PUBLIC_KEY_SIZE + NONCE_LEN
    IN IF ~sk.ok THEN bad("InvalidKey")
       ELSE IF Len(env) < hdr + TAG_LEN THEN bad("MalformedEnvelope")
       ELSE LET epk == PublicKeyParseSlice(Take(env, COMPRESSED_PUBLIC_KEY_SIZE))
            IN IF ~epk.ok THEN bad("MalformedEnvelope")
               ELSE LET k     == DeriveKey(epk.val, SharedPoint(epk.val, sk.val))
                        nonce == SubSeq(env, COMPRESSED_PUBLIC_KEY_SIZE + 1, hdr)
                        ct    == SubSeq(env, hdr + 1, Len(env) - TAG_LEN)
                        tag   == Drop(env, Len(env) - TAG_LEN)
                    IN IF tag # AuthTag(k, nonce \o ct)
                       THEN bad("AuthenticationFailure")
                       ELSE [ok |-> TRUE, err |-> "",
                             val |-> CipherApply(k, nonce, ct, -1)]

(***************************************************************************)
(* The four boundary functions as functions of their arguments and random  *)
(* draws.  A pointer argument is given as the bytes the caller placed      *)
(* before the terminating NUL.  The result tells whether the call returned *)
(* (ok) and what the returned buffer holds (out); for a call that          *)
(* panicked, the line of the failing unwrap (at), the kind of the error,   *)
(* and whether the result buffer was already allocated (alloc, its         *)
(* contents in out).                                                       *)
(***************************************************************************)
Panic(at, kind) ==
    [ok |-> FALSE, panic |-> TRUE, at |-> at, kind |-> kind, out |-> <<>>,
     alloc |-> FALSE]

PanicAfterAlloc(at, kind, buf) ==
    [ok |-> FALSE, panic |-> TRUE, at |-> at, kind |-> kind, out |-> buf,
     alloc |-> TRUE]

Return(buf) ==
    [ok |-> TRUE, panic |-> FALSE, at |-> 0, kind |-> "", out |-> buf,
     alloc |-> TRUE]

\* unwrap_or_default in place of unwrap: an empty plaintext on any error.
UnwrapOrDefault(p) == IF p.ok THEN Return(p.val) ELSE Return(<<>>)

\* A null pointer returned on a failed tag check, a panic otherwise.
UnwrapOrNull(p) ==
    IF p.ok THEN Return(p.val)
    ELSE IF p.err = "AuthenticationFailure"
    THEN [ok |-> FALSE, panic |-> FALSE, at |-> 144, kind |-> p.err,
          out |-> <<>>, alloc |-> FALSE]
    ELSE [ok |-> FALSE, panic |-> TRUE, at |-> 144, kind |-> p.err,
          out |-> <<>>, alloc |-> FALSE]

\* let decrypted = decrypted_result.unwrap();
UnwrapDecrypted(p) == IF p.ok THEN Return(p.val) ELSE Panic(144, p.err)

ecies_generate_secret_key(sk) ==
    LET secret_key_hex == HexEncode(SecretKeySerialize(sk))
        cstring        == CStringNew(secret_key_hex)
    IN IF ~cstring.ok THEN Panic(34, "NulError") ELSE Return(cstring.val)

ecies_public_key_from(secret_key_ptr) ==
    LET secret_key_cstr == CStrFromPtr(secret_key_ptr)
    IN IF ~ToStr(secret_key_cstr).ok THEN Panic(55, "Utf8Error")
       ELSE LET decoded == HexDecode(secret_key_cstr)
       IN IF ~decoded.ok THEN Panic(57, "DecodeError")
       ELSE LET secret_key == SecretKeyParseSlice(decoded.val)
       IN IF ~secret_key.ok THEN Panic(59, "InvalidKey")
       ELSE LET public_key     == PublicKeyFromSecretKey(secret_key.val)
                public_key_hex == HexEncode(SerializeCompressed(public_key))
                cstring        == CStringNew(public_key_hex)
       IN IF ~cstring.ok THEN Panic(68, "NulError") ELSE Return(cstring.val)

ecies_encrypt(public_key_ptr, message_ptr, esk, nonce) ==
    LET public_key_cstr == CStrFromPtr(public_key_ptr)
    IN IF ~ToStr(public_key_cstr).ok THEN Panic(89, "Utf8Error")
       ELSE LET decoded == HexDecode(public_key_cstr)
       IN IF ~decoded.ok THEN Panic(91, "DecodeError")
       ELSE LET public_key == PublicKeyParseSlice(decoded.val)
       IN IF ~public_key.ok THEN Panic(94, "InvalidKey")
       ELSE LET message_buffer == CStrFromPtr(message_ptr)
                encrypted == EciesEncrypt(SerializeCompressed(public_key.val),
                                          message_buffer, esk, nonce)
       IN IF ~encrypted.ok THEN Panic(102, "EncryptionFailure")
       ELSE LET cstring == CStringNew(Base64Encode(encrypted.val))
       IN IF ~cstring.ok THEN Panic(106, "NulError")
       ELSE IF ~ToStr(cstring.val).ok
            THEN PanicAfterAlloc(107, "Utf8Error", cstring.val)
       ELSE Return(cstring.val)

ecies_decrypt(secret_key_ptr, message_ptr) ==
    LET secret_key_cstr == CStrFromPtr(secret_key_ptr)
    IN IF ~ToStr(secret_key_cstr).ok THEN Panic(128, "Utf8Error")
       ELSE LET decoded == HexDecode(secret_key_cstr)
       IN IF ~decoded.ok THEN Panic(130, "DecodeError")
       ELSE LET secret_key == SecretKeyParseSlice(decoded.val)
       IN IF ~secret_key.ok THEN Panic(133, "InvalidKey")
       ELSE LET message_vec == Base64Decode(CStrFromPtr(message_ptr))
       IN IF ~message_vec.ok THEN Panic(141, "DecodeError")
       ELSE LET decrypted == UnwrapDecrypted(
                    EciesDecrypt(SecretKeySerialize(secret_key.val),
                                 message_vec.val))
       IN IF ~decrypted.ok THEN decrypted
       ELSE LET cstring == CStringNew(decrypted.out)
       IN IF ~cstring.ok THEN Panic(146, "NulError")
       ELSE IF ~ToStr(cstring.val).ok
            THEN PanicAfterAlloc(147, "Utf8Error", cstring.val)
       ELSE Return(cstring.val)

(***************************************************************************)
(* State.                                                                  *)
(*   heap      the process heap: per address, whether it is allocated and  *)
(*             what it holds                                               *)
(*   returned  the buffers handed to the caller, in order: the pointer,    *)
(*             the contents at return, and the call that produced them     *)
(*   last      the last call that ended: its arguments and its outcome     *)
(*   alive     whether the process still runs                              *)
(*   build     what a panic that leaves an extern "C" function does in     *)
(*             this build: abort the process, or unwind into the caller    *)
(*   plan      the inputs a scripted caller fixed in advance               *)
(*   seen      what the caller observed of its decrypt calls so far        *)
(*   inflight  per thread, the call it is in (concurrent callers)          *)
(***************************************************************************)
VARIABLES heap, returned, last, alive, build, plan, seen, inflight

vars == <<heap, returned, last, alive, build, plan, seen, inflight>>

MaxAddr == 2

MaxRand == 1

NumThreads == 2

Addr == 1..MaxAddr

Draws == 1..MaxRand

Threads == 1..NumThreads

Free == {a \in Addr : ~heap[a].live}

\* The scalar and the nonce the random generator yields on draw d.
DrawScalar(d) == CURVE_ORDER - d

DrawNonce(d) == d

NoCall ==
    [op |-> "none", arg1 |-> <<>>, arg2 |-> <<>>, draw |-> 0, cause |-> ""]

MkCall(op, a1, a2, d, cause) ==
    [op |-> op, arg1 |-> a1, arg2 |-> a2, draw |-> d, cause |-> cause]

\* The boundary function a call enters.
Handler(c) ==
    CASE c.op = "generate_secret_key" ->
             ecies_generate_secret_key(DrawScalar(c.draw))
      [] c.op = "public_key_from" -> ecies_public_key_from(c.arg1)
      [] c.op = "encrypt" ->
             ecies_encrypt(c.arg1, c.arg2, DrawScalar(c.draw), DrawNonce(c.draw))
      [] c.op = "decrypt" -> ecies_decrypt(c.arg1, c.arg2)

\* A CString dropped when the function returns: the buffer is written and
\* then freed, and the pointer handed out dangles.
DropAtReturn(h, a, buf) == [h EXCEPT ![a] = [live |-> FALSE, data |-> buf]]

\* ManuallyDrop::new(cstring): the buffer at a stays allocated after return.
ManuallyDropNew(h, a, buf) == [h EXCEPT ![a] = [live |-> TRUE, data |-> buf]]

\* What the caller observes of a call: whether it returned, and the value.
Observed(r) ==
    [returned |-> ~r.panic,
     pointer  |-> IF r.ok THEN "buffer" ELSE IF r.panic THEN "none" ELSE "null",
     value    |-> IF r.ok THEN r.out ELSE <<>>]

\* The effect of call c ending with result r: the result buffer, if the call
\* got as far as allocating it, stays on the heap; a call that returns hands
\* its pointer to the caller; a panic ends the call, and in an aborting
\* build the process.
Effects(c, r) ==
    /\ IF r.alloc
       THEN \E a \in Free :
              /\ heap' = ManuallyDropNew(heap, a, r.out)
              /\ returned' = IF r.ok
                             THEN Append(returned,
                                         [ptr |-> a, data |-> r.out, call |-> c])
                             ELSE returned
              /\ last' = [call |-> c, ok |-> r.ok, panic |-> r.panic,
                          at |-> r.at, kind |-> r.kind,
                          ptr |-> IF r.ok THEN a ELSE 0]
       ELSE /\ heap' = heap
            /\ returned' = returned
            /\ last' = [call |-> c, ok |-> r.ok, panic |-> r.panic,
                        at |-> r.at, kind |-> r.kind, ptr |-> 0]
    /\ alive' = (alive /\ ~(r.panic /\ build = "abort"))
    /\ seen' = IF c.op = "decrypt" /\ c.cause # ""
               THEN seen \cup {[cause |-> c.cause, failed |-> ~r.ok,
                                obs |-> Observed(r)]}
               ELSE seen
    /\ UNCHANGED <<build, plan>>

\* A call by a single-threaded caller, from entry to return or panic.
Call(c) ==
    /\ Free # {}
    /\ Effects(c, Handler(c))
    /\ UNCHANGED inflight

InitBase ==
    /\ heap = [a \in Addr |-> [live |-> FALSE, data |-> <<>>]]
    /\ returned = <<>>
    /\ last = [call |-> NoCall, ok |-> FALSE, panic |-> FALSE, at |-> 0,
               kind |-> "", ptr |-> 0]
    /\ alive = TRUE
    /\ build \in {"abort", "unwind"}
    /\ seen = {}
    /\ inflight = [t \in Threads |-> [pc |-> "idle", call |-> NoCall]]

(***************************************************************************)
(* Texts a caller may pass.                                                *)
(***************************************************************************)
SecretKeyText(s) == ecies_generate_secret_key(s).out

PublicKeyText(s) == ecies_public_key_from(SecretKeyText(s)).out

Upper(text) ==
    [i \in 1..Len(text) |->
        IF text[i] >= 97 /\ text[i] <= 102 THEN text[i] - 32 ELSE text[i]]

\* The envelopes the caller holds: the buffers encrypt returned, as they
\* stand on the heap now.
HeldEnvelopes ==
    {heap[returned[i].ptr].data :
        i \in {j \in 1..Len(returned) : returned[j].call.op = "encrypt"}}

(***************************************************************************)
(* Spec: a caller that makes any of the four calls in any order.           *)
(***************************************************************************)
CallerSecretKeys ==
    {SecretKeyText(DrawScalar(1)), Take(SecretKeyText(DrawScalar(1)), 63)}

CallerPublicKeys ==
    {PublicKeyText(DrawScalar(1)), Take(PublicKeyText(DrawScalar(1)), 64)}

CallerMessages == {<<65>>, <<255>>}

CallerEnvelopes == HeldEnvelopes \cup {<<33>>}

GenerateSecretKey ==
    /\ alive
    /\ \E d \in Draws : Call(MkCall("generate_secret_key", <<>>, <<>>, d, ""))

PublicKeyFrom ==
    /\ alive
    /\ \E t \in CallerSecretKeys :
          Call(MkCall("public_key_from", t, <<>>, 0, ""))

Encrypt ==
    /\ alive
    /\ \E t \in CallerPublicKeys, m \in CallerMessages, d \in Draws :
          Call(MkCall("encrypt", t, m, d, ""))

Decrypt ==
    /\ alive
    /\ \E t \in CallerSecretKeys, e \in CallerEnvelopes :
          Call(MkCall("decrypt", t, e, 0, ""))

Init == InitBase /\ plan = <<>>

Next == GenerateSecretKey \/ PublicKeyFrom \/ Encrypt \/ Decrypt

Spec == Init /\ [][Next]_vars

(***************************************************************************)
(* SpecKeys: one call, its key text drawn from the texts of every key and  *)
(* their malformed variants: the other letter case, a digit cut off, a     *)
(* non-hex character, a byte cut off or added, a byte that is not UTF-8,   *)
(* a NUL inside, the empty text, and the out-of-range scalars.             *)
(***************************************************************************)
AllScalars == 1..(CURVE_ORDER - 1)

Malformed(t) ==
    {Upper(t), Take(t, Len(t) - 1), [t EXCEPT ![1] = 103],
     [Take(t, Len(t) - 1) EXCEPT ![2] = 120], Take(t, Len(t) - 2),
     t \o <<48, 48>>, [t EXCEPT ![1] = 255], [t EXCEPT ![3] = 0], <<>>}

KeysSecretTexts ==
    UNION {{SecretKeyText(k)} \cup Malformed(SecretKeyText(k)) : k \in AllScalars}
    \cup {HexEncode(BE32(0)), HexEncode(BE32(CURVE_ORDER))}

KeysPublicTexts ==
    UNION {{PublicKeyText(k)} \cup Malformed(PublicKeyText(k))
           \cup {HexEncode(SerializeFull(PublicKeyFromSecretKey(k))),
                 HexEncode(Drop(SerializeFull(PublicKeyFromSecretKey(k)), 1)),
                 HexEncode(<<5 - ParityTag(PublicKeyFromSecretKey(k))>>
                           \o BE32(PublicKeyFromSecretKey(k)))}
           : k \in AllScalars}

\* An envelope for the key of the first draw, and a text that is no base64.
KeysEnvelopes ==
    {ecies_encrypt(PublicKeyText(DrawScalar(1)), <<65>>,
                   DrawScalar(1), DrawNonce(1)).out,
     <<33>>}

FirstCall == alive /\ last.call.op = "none"

KeysGenerate ==
    /\ FirstCall
    /\ \E d \in AllScalars :
          Call(MkCall("generate_secret_key", <<>>, <<>>, d, ""))

KeysPublicKeyFrom ==
    /\ FirstCall
    /\ \E t \in KeysSecretTexts : Call(MkCall("public_key_from", t, <<>>, 0, ""))

KeysEncrypt ==
    /\ FirstCall
    /\ \E t \in KeysPublicTexts, d \in Draws :
          Call(MkCall("encrypt", t, <<65>>, d, ""))

KeysDecrypt ==
    /\ FirstCall
    /\ \E t \in KeysSecretTexts, e \in KeysEnvelopes :
          Call(MkCall("decrypt", t, e, 0, ""))

NextKeys == KeysGenerate \/ KeysPublicKeyFrom \/ KeysEncrypt \/ KeysDecrypt

SpecKeys == Init /\ [][NextKeys]_vars

(***************************************************************************)
(* C7: decode robustness.  The key text of the last call is the C string   *)
(* the function read; the three cases of the claim are stated of a text    *)
(* that is valid UTF-8.                                                    *)
(***************************************************************************)
TakesKeyText == last.call.op \in {"public_key_from", "encrypt", "decrypt"}

KeyTextRead == CStrFromPtr(last.call.arg1)

IsHexText(t) == \A i \in 1..Len(t) : HexVal(t[i]) >= 0

OddLength == Len(KeyTextRead) % 2 = 1

NonHex == ~IsHexText(KeyTextRead)

DecodedLength == Len(KeyTextRead) \div 2

KeyLength == IF last.call.op = "encrypt" THEN COMPRESSED_PUBLIC_KEY_SIZE
             ELSE SECRET_KEY_SIZE

WrongLength == ~OddLength /\ ~NonHex /\ DecodedLength # KeyLength

NoResult == ~last.ok /\ last.ptr = 0 /\ returned = <<>>

IsLowerHex(c) == (c >= 48 /\ c <= 57) \/ (c >= 97 /\ c <= 102)

LastBuffer == heap[last.ptr].data

\* C9: 64 lowercase hexadecimal characters from generate_secret_key, 66
\* from public_key_from.
C9_KeyTextFormat ==
    /\ (last.ok /\ last.call.op = "generate_secret_key") =>
          /\ Len(LastBuffer) = 64
          /\ \A i \in 1..64 : IsLowerHex(LastBuffer[i])
    /\ (last.ok /\ last.call.op = "public_key_from") =>
          /\ Len(LastBuffer) = 66
          /\ \A i \in 1..66 : IsLowerHex(LastBuffer[i])

\* public_key_from returned a text with a letter digit in it, from a
\* secret-key text written in upper case.
C9_Witness ==
    /\ last.ok
    /\ last.call.op = "public_key_from"
    /\ \E i \in 1..Len(last.call.arg1) : last.call.arg1[i] = 65
    /\ \E i \in 1..Len(LastBuffer) : LastBuffer[i] >= 97

(***************************************************************************)
(* SpecRound: a caller that holds the secret key of scalar plan.s, as      *)
(* generate_secret_key returns it, and the public key public_key_from      *)
(* derives from it; it encrypts plan.msg to the public key and decrypts    *)
(* the envelope with the secret key of scalar plan.s2.                     *)
(***************************************************************************)
RoundMessages ==
    {<<>>, <<65>>, <<72, 105>>, <<195, 169>>, <<255>>, <<0>>, <<65, 0, 66>>}

InitRound ==
    /\ InitBase
    /\ plan \in [s : AllScalars, s2 : AllScalars, msg : RoundMessages]

RoundEncrypt ==
    /\ FirstCall
    /\ \E d \in Draws :
          Call(MkCall("encrypt", PublicKeyText(plan.s), plan.msg, d, ""))

RoundDecrypt ==
    /\ alive
    /\ last.call.op = "encrypt"
    /\ last.ok
    /\ Call(MkCall("decrypt", SecretKeyText(plan.s2), heap[last.ptr].data, 0,
                   IF plan.s2 = plan.s THEN "" ELSE "wrong_key"))

NextRound == RoundEncrypt \/ RoundDecrypt

SpecRound == InitRound /\ [][NextRound]_vars

(***************************************************************************)
(* C1: round trip.  With the secret key S and P = public_key_from(S),      *)
(* decrypt(S, encrypt(P, M)) succeeds and returns exactly M, for every     *)
(* byte sequence M.                                                        *)
(***************************************************************************)
C1_RoundTrip ==
    (last.call.op = "decrypt" /\ plan.s2 = plan.s) =>
        (last.ok /\ heap[last.ptr].data = plan.msg)

(***************************************************************************)
(* C3: cross-key rejection.  decrypt with a valid secret key other than    *)
(* the one the envelope was encrypted to fails and returns no buffer.      *)
(***************************************************************************)
C3_CrossKeyRejected ==
    (last.call.op = "decrypt" /\ plan.s2 # plan.s) =>
        /\ ~last.ok
        /\ last.ptr = 0
        /\ Len(returned) = 1
        /\ \A a \in Addr : heap[a].live => a = returned[1].ptr

\* decrypt was called on an envelope of encrypt with the text of another
\* valid secret key, and the engine refused it.
C3_Witness ==
    /\ last.call.op = "decrypt"
    /\ plan.s2 # plan.s
    /\ last.call.arg1 = SecretKeyText(plan.s2)
    /\ last.call.arg2 = returned[1].data
    /\ returned[1].call.arg1 = PublicKeyText(plan.s)
    /\ last.at = 144

(***************************************************************************)
(* SpecTamper: the caller encrypts plan.msg to its own public key, then    *)
(* makes one decrypt call with the right key on the envelope with one byte *)
(* replaced, and one decrypt call with another key on the envelope as      *)
(* returned.  A byte is replaced by a base64 symbol that differs from it   *)
(* in one bit, by the padding symbol, or by a byte outside the alphabet.   *)
(***************************************************************************)
TamperMessages == {<<>>, <<65>>, <<72, 105>>}

TamperScalars == {3, CURVE_ORDER - 1}

InitTamper ==
    /\ InitBase
    /\ plan \in {p \in [s : TamperScalars, s2 : TamperScalars,
                       msg : TamperMessages] : p.s < p.s2}

Replacements(c) ==
    ((IF B64Val(c) < 0 THEN {65, 66}
      ELSE {B64Char((B64Val(c) + d) % 64) : d \in {1, 2, 4, 8, 16, 32}})
     \cup {61, 33, 255, 0}) \ {c}

Envelope == heap[returned[1].ptr].data

NotYet(cause) == \A e \in seen : e.cause # cause

TamperEncrypt ==
    /\ FirstCall
    /\ \E d \in Draws :
          Call(MkCall("encrypt", PublicKeyText(plan.s), plan.msg, d, ""))

TamperedDecrypt ==
    /\ alive
    /\ Len(returned) = 1
    /\ NotYet("tampered")
    /\ \E pos \in 1..Len(Envelope) :
          \E v \in Replacements(Envelope[pos]) :
              Call(MkCall("decrypt", SecretKeyText(plan.s),
                          [Envelope EXCEPT ![pos] = v], 0, "tampered"))

WrongKeyDecrypt ==
    /\ alive
    /\ Len(returned) = 1
    /\ NotYet("wrong_key")
    /\ Call(MkCall("decrypt", SecretKeyText(plan.s2), Envelope, 0, "wrong_key"))

NextTamper == TamperEncrypt \/ TamperedDecrypt \/ WrongKeyDecrypt

SpecTamper == InitTamper /\ [][NextTamper]_vars

(***************************************************************************)
(* C2: tamper detection.  decrypt with the matching secret key of an       *)
(* envelope that differs from the one encrypt returned in exactly one byte *)
(* fails and returns nothing.                                              *)
(***************************************************************************)
DiffersInOneByte(a, b) ==
    /\ Len(a) = Len(b)
    /\ Cardinality({i \in 1..Len(a) : a[i] # b[i]}) = 1

\* C2: such a decrypt call fails, returns no pointer and leaves no buffer.
C2_TamperDetected ==
    (/\ last.call.op = "decrypt"
     /\ last.call.arg1 = SecretKeyText(plan.s)
     /\ Len(returned) >= 1
     /\ returned[1].call.arg1 = PublicKeyText(plan.s)
     /\ DiffersInOneByte(last.call.arg2, returned[1].data))
    => /\ ~last.ok
       /\ last.ptr = 0
       /\ Len(returned) = 1
       /\ \A a \in Addr : heap[a].live => a = returned[1].ptr

\* The tampered text was still base64, and the engine refused the envelope
\* it decoded to.
C2_Witness ==
    /\ last.call.op = "decrypt"
    /\ last.call.cause = "tampered"
    /\ DiffersInOneByte(last.call.arg2, returned[1].data)
    /\ Base64Decode(last.call.arg2).ok
    /\ last.at = 144
    /\ last.kind = "AuthenticationFailure"

(***************************************************************************)
(* C8: no decryption oracle.  Of two decrypt calls that fail, one for a    *)
(* secret key that does not match the envelope and one for a tampered      *)
(* envelope, the caller observes the same: whether the call returned, and  *)
(* what it returned.                                                       *)
(***************************************************************************)
C8_FailuresIndistinguishable ==
    \A a \in seen, b \in seen :
        (a.cause = "wrong_key" /\ b.cause = "tampered" /\ a.failed /\ b.failed)
        => a.obs = b.obs

\* Both calls were made in one run and both failed, the tampered one at
\* the base64 decoding and the other in the engine.
C8_Witness ==
    /\ \E a \in seen : a.cause = "wrong_key" /\ a.failed
    /\ \E b \in seen : b.cause = "tampered" /\ b.failed
    /\ last.call.cause = "tampered"
    /\ last.at = 141

(***************************************************************************)
(* SpecConc: each thread of the host makes one call.  A call is in flight  *)
(* from the step its thread enters the function to the step it returns or  *)
(* panics, and other threads take steps in between.  The functions keep no *)
(* state of their own, so the steps of a call are its entry and its end;   *)
(* a panic in an aborting build ends the process, and with it every call   *)
(* then in flight in another thread.                                       *)
(***************************************************************************)
ConcCalls ==
    {MkCall("generate_secret_key", <<>>, <<>>, d, "") : d \in Draws}
    \cup {MkCall("public_key_from", t, <<>>, 0, "") :
              t \in {SecretKeyText(3), <<48>>}}
    \cup {MkCall("encrypt", PublicKeyText(3), <<65>>, d, "") : d \in Draws}
    \cup {MkCall("decrypt", SecretKeyText(3), <<33>>, 0, "")}

ConcEnter ==
    /\ alive
    /\ \E t \in Threads :
          /\ inflight[t].pc = "idle"
          /\ \E c \in ConcCalls :
                inflight' = [inflight EXCEPT ![t] = [pc |-> "running", call |-> c]]
    /\ UNCHANGED <<heap, returned, last, alive, build, plan, seen>>

\* The threads an abort of the process stops inside a call.
Killed(f, t) ==
    [u \in Threads |-> IF u # t /\ f[u].pc = "running"
                       THEN [f[u] EXCEPT !.pc = "killed"] ELSE f[u]]

ConcLeave ==
    /\ alive
    /\ \E t \in Threads :
          /\ inflight[t].pc = "running"
          /\ Free # {}
          /\ LET c == inflight[t].call
                 r == Handler(c)
                 f == [inflight EXCEPT
                          ![t].pc = IF r.ok THEN "returned" ELSE "failed"]
             IN /\ Effects(c, r)
                /\ inflight' = IF r.panic /\ build = "abort"
                               THEN Killed(f, t) ELSE f

NextConc == ConcEnter \/ ConcLeave

SpecConc == Init /\ [][NextConc]_vars

(***************************************************************************)
(* C10: concurrent calls do not interfere.  Every call a thread made ends  *)
(* as the same call ends when it runs alone: it returns when that one      *)
(* returns, with the same value for public_key_from and decrypt, and fails *)
(* when that one fails.                                                    *)
(***************************************************************************)
Ended(t) == inflight[t].pc \in {"returned", "failed", "killed"}

\* C10: the end of each thread's call is the end of the same call run alone.
C10_OutcomeAsAlone ==
    \A t \in Threads :
        Ended(t) =>
            LET c == inflight[t].call
                r == Handler(c)
            IN /\ (inflight[t].pc = "returned") = r.ok
               /\ (inflight[t].pc = "failed") = ~r.ok
               /\ (inflight[t].pc = "returned"
                   /\ c.op \in {"public_key_from", "decrypt"})
                  => \E i \in 1..Len(returned) :
                        /\ returned[i].call = c
                        /\ heap[returned[i].ptr].data = r.out

(***************************************************************************)
(* C5: failure is all-or-nothing at the boundary: any failure ends the     *)
(* call before a result buffer is allocated, so every allocated buffer is  *)
(* one that a successful call returned to the caller.                      *)
(***************************************************************************)
ReturnedPtrs == {returned[i].ptr : i \in 1..Len(returned)}

\* C5: every live buffer was returned by a successful call, and a failed
\* call returns no pointer.
C5_FailureBeforeAllocation ==
    /\ \A a \in Addr : heap[a].live => a \in ReturnedPtrs
    /\ ~last.ok => last.ptr = 0

(***************************************************************************)
(* C6: every buffer returned to the caller by an earlier call is still     *)
(* allocated and holds what it held at return, and the buffers returned    *)
(* are pairwise distinct.                                                  *)
(***************************************************************************)
C6_ReturnedBuffersIntact ==
    \A i \in 1..Len(returned) :
        /\ heap[returned[i].ptr].live
        /\ heap[returned[i].ptr].data = returned[i].data
        /\ \A j \in 1..Len(returned) : j # i => returned[j].ptr # returned[i].ptr

\* Two buffers were returned by successive calls, and the first holds its
\* content after the second call.
C6_Witness ==
    /\ Len(returned) >= 2
    /\ returned[1].ptr # returned[2].ptr
    /\ heap[returned[1].ptr].data = returned[1].data
    /\ last.ok
    /\ last.ptr = returned[Len(returned)].ptr

====
